---- MODULE Spec2Model ----
(***************************************************************************)
(* Compensated summation (crate compensated-summation): the error-free     *)
(* transforms two_sum, two_sub, fast_two_sum, abs_two_sum, the accumulators *)
(* KahanBabuska and KahanBabuskaNeumaier, their std::iter::Sum reductions  *)
(* and the free-function formulations of module dev.                       *)
(*                                                                         *)
(* The generic parameter T: Float is instantiated with a small IEEE-754    *)
(* binary format: Prec significand bits, MaxExp + 1 exponent values,       *)
(* gradual underflow, signed zeros, two infinities and NaN, rounding to    *)
(* nearest with ties to even.  A finite magnitude is an integer count of   *)
(* the smallest positive subnormal, so the exact sum of two finite values  *)
(* is an integer and rounding is computed on integers.                     *)
(***************************************************************************)
EXTENDS Integers, Sequences, FiniteSets, TLC

VARIABLES a, b, res, kind, input, acc, pc, ctor, shadow, nops

vars == <<a, b, res, kind, input, acc, pc, ctor, shadow, nops>>

(***************************************************************************)
(* Bounds of the model.                                                    *)
(***************************************************************************)
Prec == 3

MaxExp == 2

MaxLen == 2

MaxOps == 2

MaxSeq == 3

(***************************************************************************)
(* The floating-point type T.                                              *)
(***************************************************************************)
Pow2(n) == 2 ^ n

Abs(z) == IF z < 0 THEN -z ELSE z

\* largest finite magnitude (T::max_value())
Omega == (Pow2(Prec) - 1) * Pow2(MaxExp)

Mags == {m * Pow2(e) : m \in 0 .. (Pow2(Prec) - 1), e \in 0 .. MaxExp}

Fin(s, m) == [cls |-> "fin", sgn |-> s, mag |-> m]

PosZero == Fin(0, 0)

NegZero == Fin(1, 0)

PosInf == [cls |-> "inf", sgn |-> 0, mag |-> 0]

NegInf == [cls |-> "inf", sgn |-> 1, mag |-> 0]

NaN == [cls |-> "nan", sgn |-> 0, mag |-> 0]

Finite == {Fin(s, m) : s \in 0 .. 1, m \in Mags}

Floats == Finite \cup {PosInf, NegInf, NaN}

IsFinite(x) == x.cls = "fin"

IsNaN(x) == x.cls = "nan"

IsZero(x) == x.cls = "fin" /\ x.mag = 0

\* the exact value of a finite float, in units of the smallest subnormal
Val(x) == IF x.sgn = 1 THEN -x.mag ELSE x.mag

\* binade of a nonzero exact magnitude m: the least e with m < 2^(Prec+e)
ExpOf(m) == CHOOSE e \in 0 .. (MaxExp + 2) :
                /\ m < Pow2(Prec + e)
                /\ (e = 0 \/ m >= Pow2(Prec + e - 1))

\* round the magnitude m to Prec bits, nearest, ties to even
RoundToNearestEven(m) ==
    LET step == Pow2(ExpOf(m))
        q == m \div step
        r == m % step
        up == (2 * r > step) \/ (2 * r = step /\ q % 2 = 1)
    IN  (IF up THEN q + 1 ELSE q) * step

\* the rounding of every magnitude a sum of two finite floats can have
RoundTable == [m \in 0 .. (2 * Omega) |-> RoundToNearestEven(m)]

RoundMag(m) == RoundTable[m]

\* rounding of the exact value z; zs is the sign given to an exact zero
Round(z, zs) ==
    IF z = 0 THEN Fin(zs, 0)
    ELSE LET sg == IF z < 0 THEN 1 ELSE 0
             m == RoundMag(Abs(z))
         IN  IF m > Omega THEN [cls |-> "inf", sgn |-> sg, mag |-> 0]
             ELSE Fin(sg, m)

\* x + y of T
FAdd(x, y) ==
    IF IsNaN(x) \/ IsNaN(y) THEN NaN
    ELSE IF x.cls = "inf"
         THEN (IF y.cls = "inf" /\ y.sgn # x.sgn THEN NaN ELSE x)
    ELSE IF y.cls = "inf" THEN y
    ELSE Round(Val(x) + Val(y), IF x.sgn = 1 /\ y.sgn = 1 THEN 1 ELSE 0)

\* -x of T
FNeg(x) == IF IsNaN(x) THEN NaN ELSE [x EXCEPT !.sgn = 1 - x.sgn]

\* x - y of T
FSub(x, y) == FAdd(x, FNeg(y))

\* x.abs() of T
FAbs(x) == IF IsNaN(x) THEN NaN ELSE [x EXCEPT !.sgn = 0]

\* position of a non-NaN float on the extended real line
Ord(x) == IF x.cls = "inf"
          THEN (IF x.sgn = 1 THEN -(2 * Omega + 1) ELSE 2 * Omega + 1)
          ELSE Val(x)

\* x >= y of T (false when either is NaN)
FGe(x, y) == ~IsNaN(x) /\ ~IsNaN(y) /\ Ord(x) >= Ord(y)

\* x == y of T (PartialEq: false when either is NaN, -0 == +0)
FEq(x, y) == ~IsNaN(x) /\ ~IsNaN(y) /\ Ord(x) = Ord(y)

(***************************************************************************)
(* Exact-transform primitives.  A result pair (s, t) is <<s, t>>.          *)
(***************************************************************************)
\* two_sum dropping the residual of a
two_sum_without_da(x, y) ==
    LET s == FAdd(x, y)
        a1 == FSub(s, y)
        b1 == FSub(s, a1)
        db == FSub(y, b1)
    IN  <<s, db>>

two_sum(x, y) ==
    LET s == FAdd(x, y)
        a1 == FSub(s, y)
        b1 == FSub(s, a1)
        da == FSub(x, a1)
        db == FSub(y, b1)
        t == FAdd(da, db)
    IN  <<s, t>>

\* two_sub combining the residuals as two_sum does
two_sub_adding_db(x, y) ==
    LET s == FSub(x, y)
        a1 == FAdd(s, y)
        b1 == FSub(a1, s)
        da == FSub(x, a1)
        db == FSub(y, b1)
        t == FAdd(da, db)
    IN  <<s, t>>

two_sub(x, y) ==
    LET s == FSub(x, y)
        a1 == FAdd(s, y)
        b1 == FSub(a1, s)
        da == FSub(x, a1)
        db == FSub(y, b1)
        t == FSub(da, db)
    IN  <<s, t>>

\* fast_two_sum with the operands of the residual exchanged
fast_two_sum_negated_db(x, y) ==
    LET s == FAdd(x, y)
        b1 == FSub(s, x)
        db == FSub(b1, y)
    IN  <<s, db>>

fast_two_sum(x, y) ==
    LET s == FAdd(x, y)
        b1 == FSub(s, x)
        db == FSub(y, b1)
    IN  <<s, db>>

abs_two_sum(x, y) ==
    LET s == FAdd(x, y)
        t == IF FGe(FAbs(x), FAbs(y))
             THEN FSub(y, FSub(s, x))
             ELSE FSub(x, FSub(s, y))
    IN  <<s, t>>

(***************************************************************************)
(* The accumulators.  A state {sum, comp} is [sum |-> _, comp |-> _].      *)
(***************************************************************************)
KahanBabuska_new == [sum |-> PosZero, comp |-> PosZero]

KahanBabuska_total(k) == FAdd(k.sum, k.comp)

KahanBabuska_add_assign(k, rhs) ==
    LET r == fast_two_sum(k.sum, FAdd(rhs, k.comp))
    IN  [sum |-> r[1], comp |-> r[2]]

KahanBabuska_sub_assign(k, rhs) ==
    LET r == fast_two_sum(k.sum, FSub(k.comp, rhs))
    IN  [sum |-> r[1], comp |-> r[2]]

KahanBabuskaNeumaier_new == [sum |-> PosZero, comp |-> PosZero]

\* total() subtracting the compensation
KahanBabuskaNeumaier_total_minus_comp(k) == FSub(k.sum, k.comp)

KahanBabuskaNeumaier_total(k) == FAdd(k.sum, k.comp)

\* add_assign folding comp into the operand, as KahanBabuska does
KahanBabuskaNeumaier_add_assign_folding_comp(k, rhs) ==
    LET r == two_sum(k.sum, FAdd(rhs, k.comp))
    IN  [sum |-> r[1], comp |-> r[2]]

KahanBabuskaNeumaier_add_assign(k, rhs) ==
    LET r == two_sum(k.sum, rhs)
    IN  [sum |-> r[1], comp |-> FAdd(k.comp, r[2])]

KahanBabuskaNeumaier_sub_assign(k, rhs) ==
    LET r == two_sub(k.sum, rhs)
    IN  [sum |-> r[1], comp |-> FAdd(k.comp, r[2])]

(***************************************************************************)
(* Module dev: the free-function formulations.  Each is a loop over the    *)
(* input with locals s and c; X_body is one iteration, X_loop the locals   *)
(* after the whole input, X the value returned.                            *)
(***************************************************************************)
dev_locals == [s |-> PosZero, c |-> PosZero]

kahan_babuska_sum_body(l, x) ==
    LET y == FAdd(x, l.c)
        t == FAdd(l.s, y)
    IN  [s |-> t, c |-> FSub(y, FSub(t, l.s))]

kahan_babuska_neumaier_sum_body(l, x) ==
    LET r == two_sum(l.s, x)
    IN  [s |-> r[1], c |-> FAdd(l.c, r[2])]

kahan_babuska_neumaier_abs_sum_body(l, x) ==
    LET t == FAdd(l.s, x)
    IN  [s |-> t,
         c |-> IF FGe(FAbs(l.s), FAbs(x))
               THEN FAdd(l.c, FSub(x, FSub(t, l.s)))
               ELSE FAdd(l.c, FSub(l.s, FSub(t, x)))]

kahan_babuska_neumaier_abs_two_sum_body(l, x) ==
    LET r == abs_two_sum(l.s, x)
    IN  [s |-> r[1], c |-> FAdd(l.c, r[2])]

RECURSIVE kahan_babuska_sum_loop(_, _)
kahan_babuska_sum_loop(l, xs) ==
    IF xs = <<>> THEN l
    ELSE kahan_babuska_sum_loop(kahan_babuska_sum_body(l, Head(xs)), Tail(xs))

RECURSIVE kahan_babuska_neumaier_sum_loop(_, _)
kahan_babuska_neumaier_sum_loop(l, xs) ==
    IF xs = <<>> THEN l
    ELSE kahan_babuska_neumaier_sum_loop(
             kahan_babuska_neumaier_sum_body(l, Head(xs)), Tail(xs))

RECURSIVE kahan_babuska_neumaier_abs_sum_loop(_, _)
kahan_babuska_neumaier_abs_sum_loop(l, xs) ==
    IF xs = <<>> THEN l
    ELSE kahan_babuska_neumaier_abs_sum_loop(
             kahan_babuska_neumaier_abs_sum_body(l, Head(xs)), Tail(xs))

RECURSIVE kahan_babuska_neumaier_abs_two_sum_loop(_, _)
kahan_babuska_neumaier_abs_two_sum_loop(l, xs) ==
    IF xs = <<>> THEN l
    ELSE kahan_babuska_neumaier_abs_two_sum_loop(
             kahan_babuska_neumaier_abs_two_sum_body(l, Head(xs)), Tail(xs))

kahan_babuska_sum(xs) ==
    LET l == kahan_babuska_sum_loop(dev_locals, xs) IN FAdd(l.s, l.c)

kahan_babuska_neumaier_sum(xs) ==
    LET l == kahan_babuska_neumaier_sum_loop(dev_locals, xs) IN FAdd(l.s, l.c)

kahan_babuska_neumaier_abs_sum(xs) ==
    LET l == kahan_babuska_neumaier_abs_sum_loop(dev_locals, xs)
    IN  FAdd(l.s, l.c)

kahan_babuska_neumaier_abs_two_sum(xs) ==
    LET l == kahan_babuska_neumaier_abs_two_sum_loop(dev_locals, xs)
    IN  FAdd(l.s, l.c)

(***************************************************************************)
(* Values of the variables a specification does not use.                   *)
(***************************************************************************)
NoRes == [fn |-> "none", out |-> <<PosZero, PosZero>>]

NoAcc == [sum |-> PosZero, comp |-> PosZero]

NoShadow == [op |-> "none", st |-> NoAcc]

PrimIdle ==
    /\ kind = "none" /\ input = <<>> /\ acc = NoAcc
    /\ ctor = "none" /\ shadow = NoShadow /\ nops = 0

(***************************************************************************)
(* SpecPrim: one call of an exact-transform primitive on a pair of finite  *)
(* arguments (the bodies of tests::test_two_sum and tests::test_two_sub).  *)
(***************************************************************************)
InitPrim ==
    /\ a \in Finite
    /\ b \in Finite
    /\ res = NoRes
    /\ pc = "args"
    /\ PrimIdle

Return(fn, out) ==
    /\ pc = "args"
    /\ res' = [fn |-> fn, out |-> out]
    /\ pc' = "ret"
    /\ UNCHANGED <<a, b, kind, input, acc, ctor, shadow, nops>>

CallTwoSum == Return("two_sum", two_sum(a, b))

CallTwoSub == Return("two_sub", two_sub(a, b))

CallFastTwoSum == Return("fast_two_sum", fast_two_sum(a, b))

CallAbsTwoSum == Return("abs_two_sum", abs_two_sum(a, b))

NextPrim ==
    \/ CallTwoSum
    \/ CallTwoSub
    \/ CallFastTwoSum
    \/ CallAbsTwoSum

SpecPrim == InitPrim /\ [][NextPrim]_vars

(***************************************************************************)
(* Spec: Iterator::sum into an accumulator of either kind (impl Sum): the  *)
(* caller picks the accumulator type; sum() creates a fresh accumulator,   *)
(* adds every item the iterator yields, and returns it when the iterator   *)
(* is exhausted.  input is the sequence of items yielded so far.  The      *)
(* iterator yields any sequence of at most MaxLen finite floats, or one of *)
(* the four-item inputs of tests::kahan_large and tests::neumaier_large.   *)
(***************************************************************************)
\* 1.0 and 2.0 of the tests
One == Fin(0, 1)

Two == Fin(0, 2)

\* the values that can stand for 1e100: adding or subtracting One rounds back
Large == {M \in Finite : M.sgn = 0 /\ FAdd(M, One) = M /\ FSub(M, One) = M}

LargeInputs == {<<One, M, One, FNeg(M)>> : M \in Large}

\* the items the iterator can yield after the sequence xs
NextItems(xs) ==
    (IF Len(xs) < MaxLen THEN Finite ELSE {})
        \cup {l[Len(xs) + 1] : l \in {l \in LargeInputs :
                 Len(xs) < Len(l) /\ SubSeq(l, 1, Len(xs)) = xs}}

SumIdle ==
    /\ a = PosZero /\ b = PosZero /\ res = NoRes
    /\ ctor = "none" /\ shadow = NoShadow /\ nops = 0

Init ==
    /\ kind \in {"KB", "KBN"}
    /\ input = <<>>
    /\ acc = NoAcc
    /\ pc = "call"
    /\ SumIdle

KBSumNew ==
    /\ kind = "KB"
    /\ pc = "call"
    /\ acc' = KahanBabuska_new
    /\ pc' = "loop"
    /\ UNCHANGED <<a, b, res, kind, input, ctor, shadow, nops>>

KBSumNext ==
    /\ kind = "KB"
    /\ pc = "loop"
    /\ \E x \in NextItems(input) :
          /\ acc' = KahanBabuska_add_assign(acc, x)
          /\ input' = Append(input, x)
    /\ UNCHANGED <<a, b, res, kind, pc, ctor, shadow, nops>>

KBSumReturn ==
    /\ kind = "KB"
    /\ pc = "loop"
    /\ pc' = "done"
    /\ UNCHANGED <<a, b, res, kind, input, acc, ctor, shadow, nops>>

KBNSumNew ==
    /\ kind = "KBN"
    /\ pc = "call"
    /\ acc' = KahanBabuskaNeumaier_new
    /\ pc' = "loop"
    /\ UNCHANGED <<a, b, res, kind, input, ctor, shadow, nops>>

\* the loop of sum() taking two items from the iterator and adding one
KBNSumNext_skipping ==
    /\ kind = "KBN"
    /\ pc = "loop"
    /\ \E x \in NextItems(input) :
          /\ acc' = KahanBabuskaNeumaier_add_assign(acc, x)
          /\ IF NextItems(Append(input, x)) = {}
             THEN input' = Append(input, x)
             ELSE \E y \in NextItems(Append(input, x)) :
                      input' = input \o <<x, y>>
    /\ UNCHANGED <<a, b, res, kind, pc, ctor, shadow, nops>>

KBNSumNext ==
    /\ kind = "KBN"
    /\ pc = "loop"
    /\ \E x \in NextItems(input) :
          /\ acc' = KahanBabuskaNeumaier_add_assign(acc, x)
          /\ input' = Append(input, x)
    /\ UNCHANGED <<a, b, res, kind, pc, ctor, shadow, nops>>

KBNSumReturn ==
    /\ kind = "KBN"
    /\ pc = "loop"
    /\ pc' = "done"
    /\ UNCHANGED <<a, b, res, kind, input, acc, ctor, shadow, nops>>

Next ==
    \/ KBSumNew
    \/ KBSumNext
    \/ KBSumReturn
    \/ KBNSumNew
    \/ KBNSumNext
    \/ KBNSumReturn

Spec == Init /\ [][Next]_vars

(***************************************************************************)
(* SpecSeq: a caller creating one accumulator of each type with new() and  *)
(* applying the same sequence of += and -= to both.  acc is the            *)
(* KahanBabuskaNeumaier, shadow.st the KahanBabuska; input is the sequence *)
(* of operations applied so far, each with its operand.  The operands are  *)
(* of either sign: the powers of two up to 2^Prec, the largest finite      *)
(* value and one and a half units in its last place; up to MaxSeq          *)
(* operations are applied.                                                 *)
(***************************************************************************)
Operands ==
    {Fin(s, m) : s \in 0 .. 1,
                 m \in {Omega, 3 * Pow2(MaxExp - 1)}
                       \cup {Pow2(k) : k \in 0 .. Prec}}

InitSeq ==
    /\ kind = "KBN"
    /\ ctor = "new"
    /\ acc = KahanBabuskaNeumaier_new
    /\ shadow = [op |-> "none", st |-> KahanBabuska_new]
    /\ input = <<>>
    /\ nops = 0
    /\ pc = "seq"
    /\ a = PosZero /\ b = PosZero /\ res = NoRes

SeqAddAssign ==
    /\ pc = "seq"
    /\ nops < MaxSeq
    /\ \E x \in Operands :
          /\ acc' = KahanBabuskaNeumaier_add_assign(acc, x)
          /\ shadow' = [op |-> "add", st |-> KahanBabuska_add_assign(shadow.st, x)]
          /\ input' = Append(input, [op |-> "add", rhs |-> x])
    /\ nops' = nops + 1
    /\ UNCHANGED <<a, b, res, kind, pc, ctor>>

SeqSubAssign ==
    /\ pc = "seq"
    /\ nops < MaxSeq
    /\ \E x \in Operands :
          /\ acc' = KahanBabuskaNeumaier_sub_assign(acc, x)
          /\ shadow' = [op |-> "sub", st |-> KahanBabuska_sub_assign(shadow.st, x)]
          /\ input' = Append(input, [op |-> "sub", rhs |-> x])
    /\ nops' = nops + 1
    /\ UNCHANGED <<a, b, res, kind, pc, ctor>>

NextSeq ==
    \/ SeqAddAssign
    \/ SeqSubAssign

SpecSeq == InitSeq /\ [][NextSeq]_vars

(***************************************************************************)
(* SpecOps: a caller holding one accumulator and applying += and -= to     *)
(* it.  The accumulator is created by new() or, its fields being public,   *)
(* written as a struct literal with any two floats.  shadow records, for   *)
(* the last operation, the state the opposite operation on the negated     *)
(* operand yields from the same state.  Every state a literal can be       *)
(* operated into is itself a literal, so one operation is applied to a     *)
(* literal and up to MaxOps to an accumulator created by new().            *)
(***************************************************************************)
OpsIdle ==
    /\ a = PosZero /\ b = PosZero /\ res = NoRes
    /\ input = <<>>

InitOps ==
    /\ kind \in {"KB", "KBN"}
    /\ ctor \in {"new", "literal"}
    /\ acc \in IF ctor = "literal" THEN [sum : Floats, comp : Floats]
               ELSE IF kind = "KB" THEN {KahanBabuska_new}
               ELSE {KahanBabuskaNeumaier_new}
    /\ shadow = NoShadow
    /\ nops = 0
    /\ pc = "ops"
    /\ OpsIdle

Apply(op, new, other) ==
    /\ pc = "ops"
    /\ nops < (IF ctor = "literal" THEN 1 ELSE MaxOps)
    /\ acc' = new
    /\ shadow' = [op |-> op, st |-> other]
    /\ nops' = nops + 1
    /\ UNCHANGED <<a, b, res, kind, input, pc, ctor>>

KBAddAssign ==
    /\ kind = "KB"
    /\ \E x \in Finite :
           Apply("add", KahanBabuska_add_assign(acc, x),
                 KahanBabuska_sub_assign(acc, FNeg(x)))

KBSubAssign ==
    /\ kind = "KB"
    /\ \E x \in Finite :
           Apply("sub", KahanBabuska_sub_assign(acc, x),
                 KahanBabuska_add_assign(acc, FNeg(x)))

KBNAddAssign ==
    /\ kind = "KBN"
    /\ \E x \in Finite :
           Apply("add", KahanBabuskaNeumaier_add_assign(acc, x),
                 KahanBabuskaNeumaier_sub_assign(acc, FNeg(x)))

KBNSubAssign ==
    /\ kind = "KBN"
    /\ \E x \in Finite :
           Apply("sub", KahanBabuskaNeumaier_sub_assign(acc, x),
                 KahanBabuskaNeumaier_add_assign(acc, FNeg(x)))

NextOps ==
    \/ KBAddAssign
    \/ KBSubAssign
    \/ KBNAddAssign
    \/ KBNSubAssign

SpecOps == InitOps /\ [][NextOps]_vars

(***************************************************************************)
(* Vocabulary of the properties.                                           *)
(***************************************************************************)
\* the same value: both NaN, or equal as extended reals (-0 and +0 alike)
SameFloat(x, y) == (x = y) \/ FEq(x, y)

SamePair(p, q) == SameFloat(p[1], q[1]) /\ SameFloat(p[2], q[2])

\* s is a finite float nearest to the exact value z
Nearest(s, z) ==
    /\ IsFinite(s)
    /\ \A m \in Finite : Abs(Val(s) - z) <= Abs(Val(m) - z)

\* the pair p = (s, t) is finite and s + t = z in exact arithmetic
ExactPair(p, z) ==
    /\ IsFinite(p[1])
    /\ IsFinite(p[2])
    /\ Val(p[1]) + Val(p[2]) = z

Returned(fn) == pc = "ret" /\ res.fn = fn

(***************************************************************************)
(* C1 two_sum: for finite a, b whose sum a (+) b does not overflow, s is   *)
(* the nearest float to a + b and a + b = s + t in exact arithmetic.       *)
(* Violated: a = Omega, b = -1.5 ulp(Omega) gives s (-) b = infinity and   *)
(* t = NaN.                                                                *)
(***************************************************************************)
C1_TwoSumExact ==
    (Returned("two_sum") /\ IsFinite(FAdd(a, b))) =>
        /\ Nearest(res.out[1], Val(a) + Val(b))
        /\ ExactPair(res.out, Val(a) + Val(b))

(***************************************************************************)
(* C2 fast_two_sum: for finite a, b with |a| >= |b| the pair returned is   *)
(* the pair two_sum(a, b) returns, and a + b = s + t whenever a (+) b does *)
(* not overflow.                                                           *)
(***************************************************************************)
C2_FastEqualsTwoSum ==
    (Returned("fast_two_sum") /\ FGe(FAbs(a), FAbs(b))) =>
        /\ SamePair(res.out, two_sum(a, b))
        /\ IsFinite(FAdd(a, b)) => ExactPair(res.out, Val(a) + Val(b))

(***************************************************************************)
(* C3 abs_two_sum: for all finite a, b (overflowing sums included) the     *)
(* pair returned is the pair two_sum(a, b) returns.                        *)
(***************************************************************************)
C3_AbsEqualsTwoSum ==
    Returned("abs_two_sum") => SamePair(res.out, two_sum(a, b))

(***************************************************************************)
(* C4 two_sub: for all finite a, b the pair returned is the pair           *)
(* two_sum(a, -b) returns, and a - b = s + t in exact arithmetic whenever  *)
(* a (-) b does not overflow.                                              *)
(***************************************************************************)
C4_TwoSubIsTwoSumNeg ==
    Returned("two_sub") =>
        /\ SamePair(res.out, two_sum(a, FNeg(b)))
        /\ IsFinite(FSub(a, b)) => ExactPair(res.out, Val(a) - Val(b))

(***************************************************************************)
(* Vocabulary of the reduction properties.                                 *)
(***************************************************************************)
\* sum() has created its accumulator
Running == pc \in {"loop", "done"}

Total == IF kind = "KB" THEN KahanBabuska_total(acc)
         ELSE KahanBabuskaNeumaier_total(acc)

\* the mathematical sum of a sequence of finite floats
RECURSIVE ExactSum(_)
ExactSum(xs) == IF xs = <<>> THEN 0 ELSE Val(Head(xs)) + ExactSum(Tail(xs))

AllFinite == IsFinite(acc.sum) /\ IsFinite(acc.comp) /\ IsFinite(Total)

\* total() is at least as close to the exact sum as the field sum
TotalNoWorse ==
    Abs(Val(Total) - ExactSum(input)) <= Abs(Val(acc.sum) - ExactSum(input))

\* add(x1), ..., add(xn) applied in order to the accumulator st
RECURSIVE AddAll(_, _)
AddAll(st, xs) ==
    IF xs = <<>> THEN st
    ELSE AddAll(IF kind = "KB" THEN KahanBabuska_add_assign(st, Head(xs))
                ELSE KahanBabuskaNeumaier_add_assign(st, Head(xs)), Tail(xs))

(***************************************************************************)
(* C5 KahanBabuskaNeumaier reduction: for every finite input the total of  *)
(* the reduced accumulator is the value each of                            *)
(* kahan_babuska_neumaier_sum, kahan_babuska_neumaier_abs_sum and          *)
(* kahan_babuska_neumaier_abs_two_sum returns on the same input.           *)
(* Violated: on [Omega, -1.5 ulp(Omega)] two_sum returns t = NaN and the   *)
(* accumulator total is NaN, the two abs formulations return the exact sum.*)
(***************************************************************************)
C5_KBNFormulationsAgree ==
    (pc = "done" /\ kind = "KBN") =>
        /\ SameFloat(Total, kahan_babuska_neumaier_sum(input))
        /\ SameFloat(Total, kahan_babuska_neumaier_abs_sum(input))
        /\ SameFloat(Total, kahan_babuska_neumaier_abs_two_sum(input))

(***************************************************************************)
(* C6 KahanBabuska reduction: after every item of the input the fields     *)
(* (sum, comp) are bit for bit the locals (s, c) of kahan_babuska_sum      *)
(* after the same items, and the total of the reduced accumulator is the   *)
(* value kahan_babuska_sum returns.                                        *)
(***************************************************************************)
C6_KBMatchesFreeFunction ==
    (Running /\ kind = "KB") =>
        LET l == kahan_babuska_sum_loop(dev_locals, input)
        IN  /\ acc.sum = l.s
            /\ acc.comp = l.c
            /\ pc = "done" => Total = kahan_babuska_sum(input)

C6_Witness ==
    /\ pc = "done"
    /\ kind = "KB"
    /\ Len(input) >= 2
    /\ IsFinite(acc.comp)
    /\ ~IsZero(acc.comp)

C8_LargeCancellation ==
    (pc = "done" /\ input \in LargeInputs) =>
        /\ kind = "KB" =>
              /\ IsZero(acc.sum)
              /\ IsZero(acc.comp)
              /\ FEq(Total, PosZero)
        /\ kind = "KBN" =>
              /\ FEq(acc.comp, Two)
              /\ FEq(Total, Two)

C8_Witness ==
    /\ pc = "done"
    /\ kind = "KBN"
    /\ input \in LargeInputs
    /\ IsZero(acc.sum)

(***************************************************************************)
(* C9 Sum::sum of either kind: the accumulator is, after every item and    *)
(* at the return, the state reached from (0, 0) by add(x1), ..., add(xk)   *)
(* on the items x1..xk yielded so far, in that order and each once; the    *)
(* empty input returns sum = 0, comp = 0, total() = 0.                     *)
(***************************************************************************)
C9_SumIsFoldOfAdd ==
    Running =>
        /\ acc = AddAll([sum |-> PosZero, comp |-> PosZero], input)
        /\ (pc = "done" /\ input = <<>>) =>
              /\ acc.sum = PosZero
              /\ acc.comp = PosZero
              /\ Total = PosZero

C9_Witness ==
    /\ pc = "done"
    /\ kind = "KBN"
    /\ Len(input) = 2
    /\ input[1] # input[2]
    /\ ~IsZero(acc.sum)
    /\ ~IsZero(acc.comp)

(***************************************************************************)
(* C10 subtract(x) and add(-x): from any state and for any finite x, the   *)
(* state after -= x holds the same values as the state += -x yields (NaN   *)
(* with NaN, zeros of either sign alike), and on an accumulator created by *)
(* new() the two states are bit for bit the same.                          *)
(***************************************************************************)
C10_SubIsAddNeg ==
    (pc = "ops" /\ shadow.op = "sub") =>
        /\ SameFloat(acc.sum, shadow.st.sum)
        /\ SameFloat(acc.comp, shadow.st.comp)
        /\ ctor = "new" => acc = shadow.st

C10_Witness ==
    /\ pc = "ops"
    /\ shadow.op = "sub"
    /\ kind = "KBN"
    /\ ctor = "new"
    /\ nops = 2
    /\ IsFinite(acc.comp)
    /\ ~IsZero(acc.comp)

(***************************************************************************)
(* Vocabulary of C11, over a sequence ops of operations [op, rhs].         *)
(***************************************************************************)
\* the naive left-to-right floating-point sum: s = s + x, s = s - x from 0
RECURSIVE NaiveSum(_, _)
NaiveSum(s, ops) ==
    IF ops = <<>> THEN s
    ELSE NaiveSum(IF Head(ops).op = "add" THEN FAdd(s, Head(ops).rhs)
                  ELSE FSub(s, Head(ops).rhs),
                  Tail(ops))

\* the exact mathematical sum of the operands, subtracted ones negated
RECURSIVE ExactSignedSum(_)
ExactSignedSum(ops) ==
    IF ops = <<>> THEN 0
    ELSE (IF Head(ops).op = "add" THEN Val(Head(ops).rhs)
          ELSE -Val(Head(ops).rhs)) + ExactSignedSum(Tail(ops))

\* one operation of ops on the KahanBabuskaNeumaier state st
StepKBN(st, o) ==
    IF o.op = "add" THEN KahanBabuskaNeumaier_add_assign(st, o.rhs)
    ELSE KahanBabuskaNeumaier_sub_assign(st, o.rhs)

\* the correction the operation o on state st adds into comp
Correction(st, o) ==
    IF o.op = "add" THEN two_sum(st.sum, o.rhs)[2]
    ELSE two_sub(st.sum, o.rhs)[2]

\* applying ops from st, nothing overflowed (sum, the correction and comp
\* are finite after every operation) and no addition into comp rounded
RECURSIVE NoRoundingNoOverflow(_, _)
NoRoundingNoOverflow(st, ops) ==
    IF ops = <<>> THEN TRUE
    ELSE LET c == Correction(st, Head(ops))
             nx == StepKBN(st, Head(ops))
         IN  /\ IsFinite(nx.sum)
             /\ IsFinite(c)
             /\ IsFinite(nx.comp)
             /\ Val(nx.comp) = Val(st.comp) + Val(c)
             /\ NoRoundingNoOverflow(nx, Tail(ops))

(***************************************************************************)
(* C11 after any sequence of += and -= on a KahanBabuskaNeumaier created   *)
(* by new(): sum is bit for bit the naive left-to-right floating-point sum *)
(* of the operands, and, when no addition into comp has rounded and        *)
(* nothing has overflowed, sum + comp in exact arithmetic is the exact sum *)
(* of the operands.  (That the KahanBabuska sum differs from the naive sum *)
(* on some sequence is the reachability of C11_Witness.)                   *)
(***************************************************************************)
C11_KBNSumIsNaiveAndExact ==
    pc = "seq" =>
        /\ acc.sum = NaiveSum(PosZero, input)
        /\ NoRoundingNoOverflow(KahanBabuskaNeumaier_new, input) =>
              Val(acc.sum) + Val(acc.comp) = ExactSignedSum(input)

C11_Witness ==
    /\ pc = "seq"
    /\ \E i, j \in 1 .. Len(input) : input[i].op = "add" /\ input[j].op = "sub"
    /\ NoRoundingNoOverflow(KahanBabuskaNeumaier_new, input)
    /\ ~IsZero(acc.comp)
    /\ acc.sum = NaiveSum(PosZero, input)
    /\ Val(acc.sum) + Val(acc.comp) = ExactSignedSum(input)
    /\ IsFinite(shadow.st.sum)
    /\ ~FEq(shadow.st.sum, NaiveSum(PosZero, input))

====
